---- MODULE Spec2Model ----
(***************************************************************************)
(* Model of the NeoLED WS2812 driver (src/neoled.cpp, src/include/neoled.h) *)
(* The driver state is the set of file-level statics of neoled.cpp; the     *)
(* I2S peripheral and the GPIO matrix are the environment: every call into  *)
(* them that the code checks may succeed or fail.                           *)
(***************************************************************************)
EXTENDS Integers, Sequences, FiniteSets, TLC

(***************************************************************************)
(* Configuration macros and error codes (neoled.h)                          *)
(***************************************************************************)
PIXEL_SIZE == 12
ZERO_BUFFER == 48
I2S_DO_IO == 21

\* The LED count is a build-time choice (neoled.h: LED_NUMBER, 1 unless the
\* build overrides it); the model bounds it, with more than one pixel so that
\* the placement of pixel i at offset i * PIXEL_SIZE is exercised.
LED_NUMBER == 2

NEOLED_OK == 0
NEOLED_ERR_INIT == -1
NEOLED_ERR_PARAM == -2
NEOLED_ERR_NO_MEM == -3
NEOLED_ERR_NOT_INIT == -4
NEOLED_ERR_I2S == -5

\* The pins initWithPin is called with: the default one and another one.
Pins == {I2S_DO_IO, 4}
\* No pin (I2S_GPIO_UNUSED / I2S_PIN_NO_CHANGE): the value of dout while the
\* peripheral drives no pin, and of the pin field of calls that take none.
NoPin == -1

\* The null pixel pointer; a non-null pointer is modelled by the frame of
\* LED_NUMBER pixels it points to.
NULL == <<>>

\* Channel values: all four 2-bit groups occur (0x1B = 00 01 10 11,
\* 0xE4 = 11 10 01 00), and scaling by 128/255 truncates.  The frames are all
\* the frames over these pixels, and the all-black frame.
Pixel(g, r, b) == [green |-> g, red |-> r, blue |-> b]
Pixels == {Pixel(255, 0, 0), Pixel(27, 228, 128)}
Frames == [1..LED_NUMBER -> Pixels] \cup {[i \in 1..LED_NUMBER |-> Pixel(0, 0, 0)]}
Brightnesses == {0, 128, 255}

\* static const uint16_t bitpatterns[4] = {0x88, 0x8e, 0xe8, 0xee}
bitpatterns == <<136, 142, 232, 238>>

\* static uint8_t off_buffer[ZERO_BUFFER] = {0}; never written by the code.
off_buffer == [i \in 1..ZERO_BUFFER |-> 0]

VARIABLES
  NEOLED_USE_NEW_I2S_DRIVER, \* build flag: ESP-IDF 5.x driver or legacy one
  initialized,               \* static bool initialized
  global_brightness,         \* static uint8_t global_brightness
  current_gpio_pin,          \* static int current_gpio_pin
  size_buffer,               \* static uint16_t size_buffer
  out_buffer,                \* static uint8_t out_buffer[LED_NUMBER*PIXEL_SIZE]
  tx_handle,                 \* static i2s_chan_handle_t tx_handle (new driver)
  i2s_held,                  \* peripheral: the I2S channel/driver is allocated
  dout,                      \* peripheral: the pin routed to the I2S data output
  call,                      \* the latest API call and its arguments
  ret,                       \* the value the latest API call returned
  log,                       \* the peripheral calls made by the latest API call
  pure,                      \* colour-model function applied, arguments, result
  tasks                      \* execution contexts inside a driver call, by step

vars == <<NEOLED_USE_NEW_I2S_DRIVER, initialized, global_brightness,
          current_gpio_pin, size_buffer, out_buffer, tx_handle, i2s_held,
          dout, call, ret, log, pure, tasks>>

driver == <<initialized, global_brightness, current_gpio_pin, size_buffer,
            out_buffer, tx_handle>>

\* What the sequential, whole-call view of the API leaves alone.
aux == <<pure, tasks>>

\* One call into the peripheral: its name, whether it returned ESP_OK, the
\* bytes handed over (writes) and the pin (gpio_reset_pin).
Ev(op, ok, data, pin) == [op |-> op, ok |-> ok, data |-> data, pin |-> pin]

Call(op, pixels, brightness, pin) ==
  [op |-> op, pixels |-> pixels, brightness |-> brightness, pin |-> pin]

(***************************************************************************)
(* Frame encoder                                                            *)
(***************************************************************************)
\* x >> n for unsigned x
Shr(x, n) == x \div (2 ^ n)

\* (uint8_t)((channel * brightness) / 255)
Scale(channel, brightness) == ((channel * brightness) \div 255) % 256

\* Mutant: the channels are emitted in red, green, blue order.
pixelToBitPattern_RGB(pixel, brightness) ==
  LET r == Scale(pixel.red, brightness)
      g == Scale(pixel.green, brightness)
      b == Scale(pixel.blue, brightness)
  IN << bitpatterns[(Shr(r, 6) % 4) + 1], bitpatterns[(Shr(r, 4) % 4) + 1],
        bitpatterns[(Shr(r, 2) % 4) + 1], bitpatterns[(r % 4) + 1],
        bitpatterns[(Shr(g, 6) % 4) + 1], bitpatterns[(Shr(g, 4) % 4) + 1],
        bitpatterns[(Shr(g, 2) % 4) + 1], bitpatterns[(g % 4) + 1],
        bitpatterns[(Shr(b, 6) % 4) + 1], bitpatterns[(Shr(b, 4) % 4) + 1],
        bitpatterns[(Shr(b, 2) % 4) + 1], bitpatterns[(b % 4) + 1] >>

pixelToBitPattern(pixel, brightness) ==
  LET r == Scale(pixel.red, brightness)
      g == Scale(pixel.green, brightness)
      b == Scale(pixel.blue, brightness)
  IN << bitpatterns[(Shr(g, 6) % 4) + 1], bitpatterns[(Shr(g, 4) % 4) + 1],
        bitpatterns[(Shr(g, 2) % 4) + 1], bitpatterns[(g % 4) + 1],
        bitpatterns[(Shr(r, 6) % 4) + 1], bitpatterns[(Shr(r, 4) % 4) + 1],
        bitpatterns[(Shr(r, 2) % 4) + 1], bitpatterns[(r % 4) + 1],
        bitpatterns[(Shr(b, 6) % 4) + 1], bitpatterns[(Shr(b, 4) % 4) + 1],
        bitpatterns[(Shr(b, 2) % 4) + 1], bitpatterns[(b % 4) + 1] >>

\* The loop of updateWithBrightness: the pattern of pixels[i] overwrites the
\* PIXEL_SIZE bytes of the buffer from offset i * PIXEL_SIZE on.
RECURSIVE EncodeLoop(_, _, _, _)
EncodeLoop(buf, pixels, brightness, i) ==
  IF i >= LED_NUMBER THEN buf
  ELSE LET loc == i * PIXEL_SIZE
       IN EncodeLoop(SubSeq(buf, 1, loc)
                       \o pixelToBitPattern(pixels[i + 1], brightness)
                       \o SubSeq(buf, loc + PIXEL_SIZE + 1, Len(buf)),
                     pixels, brightness, i + 1)

(***************************************************************************)
(* Transmission driver.  The environment's answers are parameters: w is the *)
(* position of the peripheral write of one transmission that fails, acq the *)
(* position of the acquisition step of one init that fails; 0 when none     *)
(* fails.  A call returns at its first failure, so the answers after it are *)
(* never asked for.                                                         *)
(***************************************************************************)
WriteFn == IF NEOLED_USE_NEW_I2S_DRIVER THEN "i2s_channel_write" ELSE "i2s_write"

Result(r, out, ev) == [ret |-> r, out |-> out, ev |-> ev]

\* Mutant: the symbol buffer is handed to the peripheral before the frame is
\* encoded into it.
TransmitFrame_WriteBeforeEncode(size, out, pixels, brightness, w) ==
  LET enc == EncodeLoop(out, pixels, brightness, 0)
      wr1 == Ev(WriteFn, w # 1, SubSeq(out, 1, size), NoPin)
      wr2 == Ev(WriteFn, w # 2, SubSeq(off_buffer, 1, ZERO_BUFFER), NoPin)
      dly == Ev("vTaskDelay", TRUE, <<>>, NoPin)
      zro == Ev("i2s_zero_dma_buffer", TRUE, <<>>, NoPin)
  IN IF w = 1 THEN Result(NEOLED_ERR_I2S, enc, <<wr1>>)
     ELSE IF w = 2 THEN Result(NEOLED_ERR_I2S, enc, <<wr1, wr2>>)
     ELSE Result(NEOLED_OK, enc,
                 IF NEOLED_USE_NEW_I2S_DRIVER THEN <<wr1, wr2, dly>>
                                              ELSE <<wr1, wr2, dly, zro>>)

\* The part of updateWithBrightness after its two checks: encode, write the
\* symbol buffer, write the trailer, wait.
TransmitFrame(size, out, pixels, brightness, w) ==
  LET enc == EncodeLoop(out, pixels, brightness, 0)
      wr1 == Ev(WriteFn, w # 1, SubSeq(enc, 1, size), NoPin)
      wr2 == Ev(WriteFn, w # 2, SubSeq(off_buffer, 1, ZERO_BUFFER), NoPin)
      dly == Ev("vTaskDelay", TRUE, <<>>, NoPin)
      zro == Ev("i2s_zero_dma_buffer", TRUE, <<>>, NoPin)
  IN IF w = 1 THEN Result(NEOLED_ERR_I2S, enc, <<wr1>>)
     ELSE IF w = 2 THEN Result(NEOLED_ERR_I2S, enc, <<wr1, wr2>>)
     ELSE Result(NEOLED_OK, enc,
                 IF NEOLED_USE_NEW_I2S_DRIVER THEN <<wr1, wr2, dly>>
                                              ELSE <<wr1, wr2, dly, zro>>)

\* Mutant: the initialized check is missing.
updateWithBrightness_NoInitCheck(ini, size, out, pixels, brightness, w) ==
  IF pixels = NULL THEN Result(NEOLED_ERR_PARAM, out, <<>>)
  ELSE TransmitFrame(size, out, pixels, brightness, w)

\* Mutant: the null check returns the code of the check above it.
updateWithBrightness_NullAsNotInit(ini, size, out, pixels, brightness, w) ==
  IF ~ini THEN Result(NEOLED_ERR_NOT_INIT, out, <<>>)
  ELSE IF pixels = NULL THEN Result(NEOLED_ERR_NOT_INIT, out, <<>>)
  ELSE TransmitFrame(size, out, pixels, brightness, w)

\* Mutant: the result of the trailer write is not checked.
updateWithBrightness_TrailerUnchecked(ini, size, out, pixels, brightness, w) ==
  IF ~ini THEN Result(NEOLED_ERR_NOT_INIT, out, <<>>)
  ELSE IF pixels = NULL THEN Result(NEOLED_ERR_PARAM, out, <<>>)
  ELSE LET t == TransmitFrame(size, out, pixels, brightness, w)
       IN IF w = 2 THEN Result(NEOLED_OK, t.out, t.ev) ELSE t

\* Mutant: the trailer is written before the symbol buffer.
updateWithBrightness_TrailerFirst(ini, size, out, pixels, brightness, w) ==
  IF ~ini THEN Result(NEOLED_ERR_NOT_INIT, out, <<>>)
  ELSE IF pixels = NULL THEN Result(NEOLED_ERR_PARAM, out, <<>>)
  ELSE LET t == TransmitFrame(size, out, pixels, brightness, w)
       IN IF Len(t.ev) >= 2
            THEN Result(t.ret, t.out,
                        <<t.ev[2], t.ev[1]>> \o SubSeq(t.ev, 3, Len(t.ev)))
            ELSE t

\* Mutant: a failed write of the symbol buffer is tried once more.
updateWithBrightness_RetryOnce(ini, size, out, pixels, brightness, w) ==
  IF ~ini THEN Result(NEOLED_ERR_NOT_INIT, out, <<>>)
  ELSE IF pixels = NULL THEN Result(NEOLED_ERR_PARAM, out, <<>>)
  ELSE LET t == TransmitFrame(size, out, pixels, brightness, w)
       IN IF w = 1 THEN Result(t.ret, t.out, <<t.ev[1], t.ev[1]>>) ELSE t

\* updateWithBrightness run with the given initialized flag, size_buffer and
\* out_buffer contents: the code returned, the out_buffer left behind and the
\* peripheral calls made.
updateWithBrightness(ini, size, out, pixels, brightness, w) ==
  IF ~ini THEN Result(NEOLED_ERR_NOT_INIT, out, <<>>)
  ELSE IF pixels = NULL THEN Result(NEOLED_ERR_PARAM, out, <<>>)
  ELSE TransmitFrame(size, out, pixels, brightness, w)

\* Mutant: update ignores the global brightness and encodes at full brightness.
update_FullBrightness(ini, size, out, pixels, w) ==
  updateWithBrightness(ini, size, out, pixels, 255, w)

update(ini, size, out, pixels, w) ==
  updateWithBrightness(ini, size, out, pixels, global_brightness, w)

\* Pixel off_pixels[LED_NUMBER]; memset(off_pixels, 0, sizeof(off_pixels))
off_pixels == [i \in 1..LED_NUMBER |-> Pixel(0, 0, 0)]

clear(ini, size, out, w) ==
  IF ~ini THEN Result(NEOLED_ERR_NOT_INIT, out, <<>>)
  ELSE updateWithBrightness(ini, size, out, off_pixels, 0, w)

\* The effect of a call that only transmits.
Transmit(r) ==
  /\ out_buffer' = r.out
  /\ ret' = r.ret
  /\ log' = r.ev
  /\ UNCHANGED <<NEOLED_USE_NEW_I2S_DRIVER, initialized, global_brightness,
                 current_gpio_pin, size_buffer, tx_handle, i2s_held, dout>>

\* Mutant: the result of i2s_channel_enable is not checked.
AcquireNew_EnableUnchecked(gpio_pin, acq) ==
  LET new == Ev("i2s_new_channel", acq # 1, <<>>, NoPin)
      std == Ev("i2s_channel_init_std_mode", acq # 2, <<>>, gpio_pin)
      ena == Ev("i2s_channel_enable", acq # 3, <<>>, NoPin)
      del == Ev("i2s_del_channel", TRUE, <<>>, NoPin)
  IN IF acq = 1 THEN [ok |-> FALSE, ev |-> <<new>>]
     ELSE IF acq = 2 THEN [ok |-> FALSE, ev |-> <<new, std, del>>]
     ELSE [ok |-> TRUE, ev |-> <<new, std, ena>>]

\* ESP-IDF 5.x acquisition: i2s_new_channel, i2s_channel_init_std_mode (which
\* routes std_cfg.gpio_cfg.dout = gpio_pin), i2s_channel_enable.  A failure
\* after the channel was created deletes it again.
AcquireNew(gpio_pin, acq) ==
  LET new == Ev("i2s_new_channel", acq # 1, <<>>, NoPin)
      std == Ev("i2s_channel_init_std_mode", acq # 2, <<>>, gpio_pin)
      ena == Ev("i2s_channel_enable", acq # 3, <<>>, NoPin)
      del == Ev("i2s_del_channel", TRUE, <<>>, NoPin)
  IN IF acq = 1 THEN [ok |-> FALSE, ev |-> <<new>>]
     ELSE IF acq = 2 THEN [ok |-> FALSE, ev |-> <<new, std, del>>]
     ELSE IF acq = 3 THEN [ok |-> FALSE, ev |-> <<new, std, ena, del>>]
     ELSE [ok |-> TRUE, ev |-> <<new, std, ena>>]

\* Mutant: a failed i2s_set_pin does not uninstall the driver.
AcquireLegacy_NoUninstall(gpio_pin, acq) ==
  LET ins == Ev("i2s_driver_install", acq # 1, <<>>, NoPin)
      pin == Ev("i2s_set_pin", acq # 2, <<>>, gpio_pin)
  IN IF acq = 1 THEN [ok |-> FALSE, ev |-> <<ins>>]
     ELSE IF acq = 2 THEN [ok |-> FALSE, ev |-> <<ins, pin>>]
     ELSE [ok |-> TRUE, ev |-> <<ins, pin>>]

\* ESP-IDF 4.x acquisition: i2s_driver_install, i2s_set_pin (with
\* pin_config.data_out_num = gpio_pin).  A failed i2s_set_pin uninstalls.
AcquireLegacy(gpio_pin, acq) ==
  LET ins == Ev("i2s_driver_install", acq # 1, <<>>, NoPin)
      pin == Ev("i2s_set_pin", acq # 2, <<>>, gpio_pin)
      uni == Ev("i2s_driver_uninstall", TRUE, <<>>, NoPin)
  IN IF acq = 1 THEN [ok |-> FALSE, ev |-> <<ins>>]
     ELSE IF acq = 2 THEN [ok |-> FALSE, ev |-> <<ins, pin, uni>>]
     ELSE [ok |-> TRUE, ev |-> <<ins, pin>>]

\* Mutant: init does not clear the LEDs.
InitAcquire_NoClear(gpio_pin, acq, w) ==
  LET a == IF NEOLED_USE_NEW_I2S_DRIVER THEN AcquireNew(gpio_pin, acq)
                                        ELSE AcquireLegacy(gpio_pin, acq)
  IN /\ size_buffer' = LED_NUMBER * PIXEL_SIZE
     /\ current_gpio_pin' = gpio_pin
     /\ initialized' = a.ok
     /\ i2s_held' = a.ok
     /\ dout' = IF a.ok THEN gpio_pin ELSE NoPin
     /\ tx_handle' = (a.ok /\ NEOLED_USE_NEW_I2S_DRIVER)
     /\ log' = a.ev
     /\ ret' = IF a.ok THEN NEOLED_OK ELSE NEOLED_ERR_I2S
     /\ UNCHANGED <<NEOLED_USE_NEW_I2S_DRIVER, global_brightness, out_buffer>>

\* initWithPin past its initialized check: set size_buffer and the pin, acquire
\* the peripheral, and on success mark the driver initialized and clear.
InitAcquire(gpio_pin, acq, w) ==
  LET a == IF NEOLED_USE_NEW_I2S_DRIVER THEN AcquireNew(gpio_pin, acq)
                                        ELSE AcquireLegacy(gpio_pin, acq)
      c == clear(TRUE, LED_NUMBER * PIXEL_SIZE, out_buffer, w)
  IN /\ size_buffer' = LED_NUMBER * PIXEL_SIZE
     /\ current_gpio_pin' = gpio_pin
     /\ IF a.ok
          THEN /\ initialized' = TRUE
               /\ i2s_held' = TRUE
               /\ dout' = gpio_pin
               /\ tx_handle' = NEOLED_USE_NEW_I2S_DRIVER
               /\ out_buffer' = c.out
               /\ log' = a.ev \o c.ev
               /\ ret' = NEOLED_OK
          ELSE /\ initialized' = FALSE
               /\ i2s_held' = FALSE
               /\ dout' = NoPin
               /\ tx_handle' = FALSE
               /\ out_buffer' = out_buffer
               /\ log' = a.ev
               /\ ret' = NEOLED_ERR_I2S
     /\ UNCHANGED <<NEOLED_USE_NEW_I2S_DRIVER, global_brightness>>

\* Mutant: current_gpio_pin is assigned before the initialized check.
initWithPin_PinBeforeCheck(gpio_pin, acq, w) ==
  IF initialized
    THEN /\ ret' = NEOLED_OK
         /\ log' = <<>>
         /\ current_gpio_pin' = gpio_pin
         /\ UNCHANGED <<NEOLED_USE_NEW_I2S_DRIVER, initialized,
                        global_brightness, size_buffer, out_buffer, tx_handle,
                        i2s_held, dout>>
    ELSE InitAcquire(gpio_pin, acq, w)

initWithPin(gpio_pin, acq, w) ==
  IF initialized
    THEN /\ ret' = NEOLED_OK
         /\ log' = <<>>
         /\ UNCHANGED <<NEOLED_USE_NEW_I2S_DRIVER, driver, i2s_held, dout>>
    ELSE InitAcquire(gpio_pin, acq, w)

init(acq, w) == initWithPin(I2S_DO_IO, acq, w)

\* Mutant: destroy returns the error of a failed clear and releases nothing.
DestroyRelease_AbortOnClearFailure(w) ==
  LET c == clear(initialized, size_buffer, out_buffer, w)
      dis == Ev("i2s_channel_disable", TRUE, <<>>, NoPin)
      del == Ev("i2s_del_channel", TRUE, <<>>, NoPin)
      uni == Ev("i2s_driver_uninstall", TRUE, <<>>, NoPin)
      rst == Ev("gpio_reset_pin", TRUE, <<>>, current_gpio_pin)
      rel == IF NEOLED_USE_NEW_I2S_DRIVER
               THEN (IF tx_handle THEN <<dis, del>> ELSE <<>>)
               ELSE <<uni>>
  IN IF c.ret # NEOLED_OK
       THEN /\ out_buffer' = c.out
            /\ log' = c.ev
            /\ ret' = c.ret
            /\ UNCHANGED <<NEOLED_USE_NEW_I2S_DRIVER, initialized,
                           global_brightness, current_gpio_pin, size_buffer,
                           tx_handle, i2s_held, dout>>
       ELSE /\ out_buffer' = c.out
            /\ log' = c.ev \o rel \o <<rst>>
            /\ tx_handle' = FALSE
            /\ i2s_held' = IF rel = <<>> THEN i2s_held ELSE FALSE
            /\ dout' = IF dout = current_gpio_pin THEN NoPin ELSE dout
            /\ initialized' = FALSE
            /\ ret' = NEOLED_OK
            /\ UNCHANGED <<NEOLED_USE_NEW_I2S_DRIVER, global_brightness,
                           current_gpio_pin, size_buffer>>

\* destroy past its initialized check: clear (result ignored), release the
\* peripheral, reset the pin, mark the driver uninitialized.
DestroyRelease(w) ==
  LET c == clear(initialized, size_buffer, out_buffer, w)
      dis == Ev("i2s_channel_disable", TRUE, <<>>, NoPin)
      del == Ev("i2s_del_channel", TRUE, <<>>, NoPin)
      uni == Ev("i2s_driver_uninstall", TRUE, <<>>, NoPin)
      rst == Ev("gpio_reset_pin", TRUE, <<>>, current_gpio_pin)
      rel == IF NEOLED_USE_NEW_I2S_DRIVER
               THEN (IF tx_handle THEN <<dis, del>> ELSE <<>>)
               ELSE <<uni>>
  IN /\ out_buffer' = c.out
     /\ log' = c.ev \o rel \o <<rst>>
     /\ tx_handle' = FALSE
     /\ i2s_held' = IF rel = <<>> THEN i2s_held ELSE FALSE
     /\ dout' = IF dout = current_gpio_pin THEN NoPin ELSE dout
     /\ initialized' = FALSE
     /\ ret' = NEOLED_OK
     /\ UNCHANGED <<NEOLED_USE_NEW_I2S_DRIVER, global_brightness,
                    current_gpio_pin, size_buffer>>

\* Mutant: the initialized check is missing.
destroy_NoInitCheck(w) == DestroyRelease(w)

destroy(w) ==
  IF ~initialized
    THEN /\ ret' = NEOLED_OK
         /\ log' = <<>>
         /\ UNCHANGED <<NEOLED_USE_NEW_I2S_DRIVER, driver, i2s_held, dout>>
    ELSE DestroyRelease(w)

isInitialized == initialized

setBrightness(brightness) ==
  /\ global_brightness' = brightness
  /\ ret' = NEOLED_OK
  /\ log' = <<>>
  /\ UNCHANGED <<NEOLED_USE_NEW_I2S_DRIVER, initialized, current_gpio_pin,
                 size_buffer, out_buffer, tx_handle, i2s_held, dout>>

getBrightness == global_brightness

(***************************************************************************)
(* The API called sequentially, with every argument and every answer of the *)
(* peripheral.                                                              *)
(***************************************************************************)
\* The answers the environment is asked for: the new driver acquires in three
\* steps, the legacy driver in two; a call that returns before it reaches the
\* peripheral asks for none.
AcqOutcomes ==
  IF initialized THEN {0}
  ELSE IF NEOLED_USE_NEW_I2S_DRIVER THEN 0..3 ELSE 0..2
WriteOutcomes(reached) == IF reached THEN 0..2 ELSE {0}

CallInit ==
  \E acq \in AcqOutcomes :
    \E w \in WriteOutcomes(~initialized /\ acq = 0) :
      /\ init(acq, w)
      /\ call' = Call("init", NULL, 0, I2S_DO_IO)
      /\ UNCHANGED aux

CallInitWithPin ==
  \E p \in Pins, acq \in AcqOutcomes :
    \E w \in WriteOutcomes(~initialized /\ acq = 0) :
      /\ initWithPin(p, acq, w)
      /\ call' = Call("initWithPin", NULL, 0, p)
      /\ UNCHANGED aux

CallUpdate ==
  \E pixels \in Frames \cup {NULL} :
    \E w \in WriteOutcomes(initialized /\ pixels # NULL) :
      /\ Transmit(update(initialized, size_buffer, out_buffer, pixels, w))
      /\ call' = Call("update", pixels, 0, NoPin)
      /\ UNCHANGED aux

CallUpdateWithBrightness ==
  \E pixels \in Frames \cup {NULL}, b \in Brightnesses :
    \E w \in WriteOutcomes(initialized /\ pixels # NULL) :
      /\ Transmit(updateWithBrightness(initialized, size_buffer, out_buffer,
                                       pixels, b, w))
      /\ call' = Call("updateWithBrightness", pixels, b, NoPin)
      /\ UNCHANGED aux

CallClear ==
  \E w \in WriteOutcomes(initialized) :
    /\ Transmit(clear(initialized, size_buffer, out_buffer, w))
    /\ call' = Call("clear", NULL, 0, NoPin)
    /\ UNCHANGED aux

CallDestroy ==
  \E w \in WriteOutcomes(initialized) :
    /\ destroy(w)
    /\ call' = Call("destroy", NULL, 0, NoPin)
    /\ UNCHANGED aux

CallSetBrightness ==
  \E b \in Brightnesses :
    /\ setBrightness(b)
    /\ call' = Call("setBrightness", NULL, b, NoPin)
    /\ UNCHANGED aux

\* No colour-model function applied / no call in progress.
NoPure == [fn |-> "none", args |-> <<>>, done |-> TRUE, result |-> 0]
NoTasks == <<>>

\* The statics as the program starts (neoled.cpp:52-57, 68), in either build.
DriverInit ==
  /\ NEOLED_USE_NEW_I2S_DRIVER \in BOOLEAN
  /\ initialized = FALSE
  /\ global_brightness = 255
  /\ current_gpio_pin = I2S_DO_IO
  /\ size_buffer = 0
  /\ out_buffer = [i \in 1..(LED_NUMBER * PIXEL_SIZE) |-> 0]
  /\ tx_handle = FALSE
  /\ i2s_held = FALSE
  /\ dout = NoPin
  /\ call = Call("none", NULL, 0, NoPin)
  /\ ret = NEOLED_OK
  /\ log = <<>>

Init ==
  /\ DriverInit
  /\ pure = NoPure
  /\ tasks = NoTasks

Next ==
  \/ CallInit
  \/ CallInitWithPin
  \/ CallUpdate
  \/ CallUpdateWithBrightness
  \/ CallClear
  \/ CallDestroy
  \/ CallSetBrightness

Spec == Init /\ [][Next]_vars

TypeOK ==
  /\ initialized \in BOOLEAN
  /\ global_brightness \in 0..255
  /\ current_gpio_pin \in Pins
  /\ size_buffer \in {0, LED_NUMBER * PIXEL_SIZE}
  /\ Len(out_buffer) = LED_NUMBER * PIXEL_SIZE
  /\ \A i \in 1..Len(out_buffer) : out_buffer[i] \in 0..255

(***************************************************************************)
(* Colour model (neoled.h): pure functions on pixels.  A behaviour of       *)
(* ColorSpec draws one function and its arguments and applies it; the       *)
(* result of hexValue can then be fed to fromHex.                           *)
(***************************************************************************)
\* x << n
Shl(x, n) == x * (2 ^ n)

\* a | b on naturals, bit by bit
RECURSIVE BitOr(_, _)
BitOr(a, b) ==
  IF a = 0 THEN b
  ELSE IF b = 0 THEN a
  ELSE (IF a % 2 = 1 \/ b % 2 = 1 THEN 1 ELSE 0) + 2 * BitOr(a \div 2, b \div 2)

\* Mutant: the channels are packed in the struct's order, green first.
hexValue_GRB(pixel) ==
  BitOr(BitOr(Shl(pixel.green, 16), Shl(pixel.red, 8)), pixel.blue)

\* ((uint32_t)red << 16) | ((uint32_t)green << 8) | (uint32_t)blue; an 8-bit
\* channel shifted by at most 16 stays below 2^24, so uint32_t does not wrap.
hexValue(pixel) ==
  BitOr(BitOr(Shl(pixel.red, 16), Shl(pixel.green, 8)), pixel.blue)

\* (hexVal >> 16) & 0xFF, (hexVal >> 8) & 0xFF, hexVal & 0xFF
fromHex(hexVal) ==
  [green |-> Shr(hexVal, 8) % 256,
   red   |-> Shr(hexVal, 16) % 256,
   blue  |-> hexVal % 256]

\* Mutant: the interpolation divides by 256 (a shift) in place of 255.
blend_Shift8(a, b, blendAmount) ==
  [green |-> ((a.green * (255 - blendAmount) + b.green * blendAmount) \div 256) % 256,
   red   |-> ((a.red * (255 - blendAmount) + b.red * blendAmount) \div 256) % 256,
   blue  |-> ((a.blue * (255 - blendAmount) + b.blue * blendAmount) \div 256) % 256]

\* (uint8_t)((a.c * (255 - blendAmount) + b.c * blendAmount) / 255) per channel
blend(a, b, blendAmount) ==
  [green |-> ((a.green * (255 - blendAmount) + b.green * blendAmount) \div 255) % 256,
   red   |-> ((a.red * (255 - blendAmount) + b.red * blendAmount) \div 255) % 256,
   blue  |-> ((a.blue * (255 - blendAmount) + b.blue * blendAmount) \div 255) % 256]

\* Mutant: the ramps of every band are swapped (the wheel starts at red).
colorWheel_Swapped(hue) ==
  IF hue < 85
    THEN [red |-> (255 - hue * 3) % 256, green |-> (hue * 3) % 256, blue |-> 0]
  ELSE IF hue < 170
    THEN LET h == (hue - 85) % 256
         IN [red |-> 0, green |-> (255 - h * 3) % 256, blue |-> (h * 3) % 256]
  ELSE LET h == (hue - 170) % 256
       IN [red |-> (h * 3) % 256, green |-> 0, blue |-> (255 - h * 3) % 256]

\* Three bands of 85 hues; every assignment truncates to the 8-bit channel.
colorWheel(hue) ==
  IF hue < 85
    THEN [red |-> (hue * 3) % 256, green |-> (255 - hue * 3) % 256, blue |-> 0]
  ELSE IF hue < 170
    THEN LET h == (hue - 85) % 256
         IN [red |-> (255 - h * 3) % 256, green |-> 0, blue |-> (h * 3) % 256]
  ELSE LET h == (hue - 170) % 256
       IN [red |-> 0, green |-> (h * 3) % 256, blue |-> (255 - h * 3) % 256]

\* inline Pixel makePixel(uint8_t r, uint8_t g, uint8_t b)
makePixel(r, g, b) == [green |-> g % 256, red |-> r % 256, blue |-> b % 256]

\* Mutant: the scaling divides by 256.
makePixelWithBrightness_Shift8(r, g, b, brightness) ==
  [green |-> Shr(g * brightness, 8) % 256,
   red |-> Shr(r * brightness, 8) % 256,
   blue |-> Shr(b * brightness, 8) % 256]

\* pixel.red = (uint8_t)((r * brightness) / 255), and so for green and blue.
makePixelWithBrightness(r, g, b, brightness) ==
  [green |-> ((g * brightness) \div 255) % 256,
   red |-> ((r * brightness) \div 255) % 256,
   blue |-> ((b * brightness) \div 255) % 256]

\* Arguments: pixels over channel values at and next to the ends and the
\* middle of the 8-bit range; 32-bit values with and without bits above bit 23
\* (0x123456, 0xFFFFFF, 0x1123456, 0x7FFFFFFF).
ColorChannels == {0, 1, 127, 128, 254, 255}
ColorPixels == {Pixel(g, r, b) : g, r, b \in ColorChannels}
BlendChannels == {0, 1, 128, 255}
BlendPixels == {Pixel(g, r, b) : g, r, b \in BlendChannels}
BlendAmounts == {0, 1, 128, 254, 255}
HexValues == {0, 1193046, 16777215, 17970262, 2147483647}
Hues == 0..255
\* Every brightness, over colours whose channels sit at and next to the ends
\* of the range and of its quarters, each value in each channel position.
EncodeBrightnesses == 0..255
EncodeChannels == {0, 1, 63, 64, 127, 128, 191, 192, 254, 255}
EncodeColors ==
  {<<c, 255 - c, (c + 64) % 256>> : c \in EncodeChannels}
    \cup {<<(c + 64) % 256, c, 255 - c>> : c \in EncodeChannels}
    \cup {<<255 - c, (c + 64) % 256, c>> : c \in EncodeChannels}
    \cup {<<254, 127, 1>>, <<255, 255, 255>>}

Pending(fn, args) == [fn |-> fn, args |-> args, done |-> FALSE, result |-> 0]
Done(fn, args, result) == [fn |-> fn, args |-> args, done |-> TRUE, result |-> result]

ColorInit ==
  /\ DriverInit
  /\ tasks = NoTasks
  /\ pure \in {Pending("hexValue", <<p>>) : p \in ColorPixels}
         \cup {Pending("fromHex", <<h>>) : h \in HexValues}
         \cup {Pending("blend", <<a, b, m>>) :
                 a \in BlendPixels, b \in BlendPixels, m \in BlendAmounts}
         \cup {Pending("colorWheel", <<h>>) : h \in Hues}
         \cup {Pending("pixelToBitPattern", <<c[1], c[2], c[3], m>>) :
                 c \in EncodeColors, m \in EncodeBrightnesses}

ColorFrame == UNCHANGED <<NEOLED_USE_NEW_I2S_DRIVER, driver, i2s_held, dout,
                          call, ret, log, tasks>>

ApplyHexValue ==
  /\ pure.fn = "hexValue" /\ ~pure.done
  /\ pure' = Done("hexValue", pure.args, hexValue(pure.args[1]))
  /\ ColorFrame

\* fromHex of the drawn value, or of the value hexValue has just returned.
ApplyFromHex ==
  /\ \/ pure.fn = "fromHex" /\ ~pure.done
        /\ pure' = Done("fromHex", pure.args, fromHex(pure.args[1]))
     \/ pure.fn = "hexValue" /\ pure.done
        /\ pure' = Done("fromHex", <<pure.result>>, fromHex(pure.result))
  /\ ColorFrame

ApplyBlend ==
  /\ pure.fn = "blend" /\ ~pure.done
  /\ pure' = Done("blend", pure.args,
                  blend(pure.args[1], pure.args[2], pure.args[3]))
  /\ ColorFrame

ApplyColorWheel ==
  /\ pure.fn = "colorWheel" /\ ~pure.done
  /\ pure' = Done("colorWheel", pure.args, colorWheel(pure.args[1]))
  /\ ColorFrame

\* The encoder on makePixel(r, g, b) at brightness m, and on
\* makePixelWithBrightness(r, g, b, m) at brightness 255.
ApplyPixelToBitPattern ==
  /\ pure.fn = "pixelToBitPattern" /\ ~pure.done
  /\ LET a == pure.args
     IN pure' = Done("pixelToBitPattern", a,
                     [plain |-> pixelToBitPattern(makePixel(a[1], a[2], a[3]),
                                                  a[4]),
                      scaled |-> pixelToBitPattern(
                                   makePixelWithBrightness(a[1], a[2], a[3], a[4]),
                                   255)])
  /\ ColorFrame

ColorNext ==
  \/ ApplyHexValue
  \/ ApplyFromHex
  \/ ApplyBlend
  \/ ApplyColorWheel
  \/ ApplyPixelToBitPattern

ColorSpec == ColorInit /\ [][ColorNext]_vars

(***************************************************************************)
(* The driver by step.  Each execution context t is inside at most one API  *)
(* call; tasks[t] holds the call, its locals (pixels, brightness, loop      *)
(* index i), its position pc, the peripheral calls it has made and the code *)
(* it returned.  A step is one access to the statics or one call into the   *)
(* peripheral; the encoding loop advances one pixel per step.  The code has *)
(* no lock, so the steps of different contexts interleave freely.  Finer    *)
(* interleavings than these (inside pixelToBitPattern) exist in the build   *)
(* and only add to the buffer contents reachable here.                      *)
(* Three fields record what happened during the call: raced, another        *)
(* context wrote into out_buffer between the call's encoding and its write; *)
(* cut, the call ran while a destroy in another context was between its     *)
(* release of the peripheral and its return; unheld and orphan, the call    *)
(* wrote while the peripheral was not held, and while in addition           *)
(* initialized was false.                                                   *)
(***************************************************************************)
IdleTask ==
  [op |-> "none", pixels |-> NULL, brightness |-> 0, pin |-> NoPin,
   pc |-> "idle", i |-> 0, ret |-> NEOLED_OK, log |-> <<>>, raced |-> FALSE,
   cut |-> FALSE, unheld |-> FALSE, orphan |-> FALSE]

\* A destroy of another context than t has released and not yet returned.
Releasing(t) ==
  \E u \in DOMAIN tasks \ {t} :
    tasks[u].op = "destroy" /\ tasks[u].pc \in {"dst_rst", "dst_fin"}

\* The record of a context after a write made in the current state.
Wrote(T, e) ==
  [T EXCEPT !.log = Append(T.log, e),
            !.unheld = T.unheld \/ ~i2s_held,
            !.orphan = T.orphan \/ (~i2s_held /\ ~initialized)]

Entry(op) ==
  CASE op = "update" -> "upd_arg"
    [] op = "updateWithBrightness" -> "uwb_chk"
    [] op = "clear" -> "clr_chk"
    [] op \in {"init", "initWithPin"} -> "ini_chk"
    [] op = "destroy" -> "dst_chk"

\* Context t enters a call.
Enter(t, op, pixels, brightness, pin) ==
  /\ tasks[t].pc = "idle"
  /\ tasks' = [tasks EXCEPT ![t] =
                 [op |-> op, pixels |-> pixels, brightness |-> brightness,
                  pin |-> pin, pc |-> Entry(op), i |-> 0, ret |-> tasks[t].ret,
                  log |-> <<>>, raced |-> FALSE, cut |-> Releasing(t),
                  unheld |-> FALSE, orphan |-> FALSE]]
  /\ UNCHANGED <<NEOLED_USE_NEW_I2S_DRIVER, driver, i2s_held, dout, call, ret,
                 log, pure>>

\* Mutant: initWithPin returns what its clear() returned.
Returned_InitReportsClear(T, r) ==
  IF T.op = "destroy" THEN [T EXCEPT !.pc = "dst_rel"]
  ELSE [T EXCEPT !.pc = "idle", !.ret = r]

\* updateWithBrightness (or the clear that called it) returns r to its caller:
\* update, updateWithBrightness and clear return it to the application,
\* initWithPin ignores it and returns NEOLED_OK, destroy ignores it and goes on.
Returned(T, r) ==
  IF T.op \in {"init", "initWithPin"}
    THEN [T EXCEPT !.pc = "idle", !.ret = NEOLED_OK]
  ELSE IF T.op = "destroy" THEN [T EXCEPT !.pc = "dst_rel"]
  ELSE [T EXCEPT !.pc = "idle", !.ret = r]

OnlyTask(t, T) ==
  /\ tasks' = [tasks EXCEPT ![t] = T]
  /\ UNCHANGED <<NEOLED_USE_NEW_I2S_DRIVER, driver, i2s_held, dout, call, ret,
                 log, pure>>

\* update: the argument global_brightness is read.
StepUpdateArg(t) ==
  /\ tasks[t].pc = "upd_arg"
  /\ OnlyTask(t, [tasks[t] EXCEPT !.brightness = global_brightness,
                                  !.pc = "uwb_chk"])

\* Mutant: the initialized check is missing.
StepCheck_NoInitCheck(t) ==
  /\ tasks[t].pc = "uwb_chk"
  /\ OnlyTask(t, IF tasks[t].pixels = NULL
                   THEN Returned(tasks[t], NEOLED_ERR_PARAM)
                 ELSE [tasks[t] EXCEPT !.pc = "enc", !.i = 0])

\* updateWithBrightness: the initialized check and the null check.
StepCheck(t) ==
  /\ tasks[t].pc = "uwb_chk"
  /\ OnlyTask(t, IF ~initialized THEN Returned(tasks[t], NEOLED_ERR_NOT_INIT)
                 ELSE IF tasks[t].pixels = NULL
                   THEN Returned(tasks[t], NEOLED_ERR_PARAM)
                 ELSE [tasks[t] EXCEPT !.pc = "enc", !.i = 0])

\* Mutant: the loop stops one pixel early.
StepEncode_OffByOne(t) ==
  /\ tasks[t].pc = "enc"
  /\ LET T == tasks[t]
         loc == T.i * PIXEL_SIZE
         last == T.i + 1 >= LED_NUMBER - 1
     IN /\ out_buffer' =
             IF T.i >= LED_NUMBER - 1 THEN out_buffer
             ELSE SubSeq(out_buffer, 1, loc)
                    \o pixelToBitPattern(T.pixels[T.i + 1], T.brightness)
                    \o SubSeq(out_buffer, loc + PIXEL_SIZE + 1, Len(out_buffer))
        /\ tasks' = [u \in DOMAIN tasks |->
                       IF u = t
                         THEN [T EXCEPT !.i = T.i + 1,
                                        !.pc = IF last THEN "wr1" ELSE "enc"]
                       ELSE IF tasks[u].pc \in {"enc", "wr1"}
                         THEN [tasks[u] EXCEPT !.raced = TRUE]
                       ELSE tasks[u]]
  /\ UNCHANGED <<NEOLED_USE_NEW_I2S_DRIVER, initialized, global_brightness,
                 current_gpio_pin, size_buffer, tx_handle, i2s_held, dout,
                 call, ret, log, pure>>

\* One round of the encoding loop: pixelToBitPattern(pixels[i],
\* &out_buffer[i * PIXEL_SIZE], brightness).  A context that is between its
\* first round and its write of the symbol buffer is marked as raced when
\* another context writes into out_buffer.
StepEncode(t) ==
  /\ tasks[t].pc = "enc"
  /\ LET T == tasks[t]
         loc == T.i * PIXEL_SIZE
         last == T.i + 1 >= LED_NUMBER
     IN /\ out_buffer' =
             SubSeq(out_buffer, 1, loc)
               \o pixelToBitPattern(T.pixels[T.i + 1], T.brightness)
               \o SubSeq(out_buffer, loc + PIXEL_SIZE + 1, Len(out_buffer))
        /\ tasks' = [u \in DOMAIN tasks |->
                       IF u = t
                         THEN [T EXCEPT !.i = T.i + 1,
                                        !.pc = IF last THEN "wr1" ELSE "enc"]
                       ELSE IF tasks[u].pc \in {"enc", "wr1"}
                         THEN [tasks[u] EXCEPT !.raced = TRUE]
                       ELSE tasks[u]]
  /\ UNCHANGED <<NEOLED_USE_NEW_I2S_DRIVER, initialized, global_brightness,
                 current_gpio_pin, size_buffer, tx_handle, i2s_held, dout,
                 call, ret, log, pure>>

\* Mutant: a failed write of the symbol buffer starts the transmission again.
StepWriteSymbols_RetryForever(t) ==
  /\ tasks[t].pc = "wr1"
  /\ \E ok \in BOOLEAN :
       LET T == tasks[t]
           e == Ev(WriteFn, ok, SubSeq(out_buffer, 1, size_buffer), NoPin)
       IN OnlyTask(t, IF ok THEN [Wrote(T, e) EXCEPT !.pc = "wr2"]
                      ELSE [T EXCEPT !.pc = "enc", !.i = 0])

\* The write of out_buffer, size_buffer bytes long; the peripheral answers.
StepWriteSymbols(t) ==
  /\ tasks[t].pc = "wr1"
  /\ \E ok \in BOOLEAN :
       LET T == tasks[t]
           e == Ev(WriteFn, ok, SubSeq(out_buffer, 1, size_buffer), NoPin)
           W == Wrote(T, e)
       IN OnlyTask(t, IF ok THEN [W EXCEPT !.pc = "wr2"]
                      ELSE Returned(W, NEOLED_ERR_I2S))

\* The write of off_buffer, ZERO_BUFFER bytes long.
StepWriteTrailer(t) ==
  /\ tasks[t].pc = "wr2"
  /\ \E ok \in BOOLEAN :
       LET T == tasks[t]
           e == Ev(WriteFn, ok, SubSeq(off_buffer, 1, ZERO_BUFFER), NoPin)
           W == Wrote(T, e)
       IN OnlyTask(t, IF ok THEN [W EXCEPT !.pc = "dly"]
                      ELSE Returned(W, NEOLED_ERR_I2S))

\* vTaskDelay, and i2s_zero_dma_buffer in the legacy build; return NEOLED_OK.
StepDelay(t) ==
  /\ tasks[t].pc = "dly"
  /\ LET T == tasks[t]
         dly == Ev("vTaskDelay", TRUE, <<>>, NoPin)
         zro == Ev("i2s_zero_dma_buffer", TRUE, <<>>, NoPin)
         W == [T EXCEPT !.log = T.log \o (IF NEOLED_USE_NEW_I2S_DRIVER
                                              THEN <<dly>> ELSE <<dly, zro>>)]
     IN OnlyTask(t, Returned(W, NEOLED_OK))

\* clear: its own initialized check, then off_pixels and brightness 0.
StepClearCheck(t) ==
  /\ tasks[t].pc = "clr_chk"
  /\ OnlyTask(t, IF ~initialized THEN Returned(tasks[t], NEOLED_ERR_NOT_INIT)
                 ELSE [tasks[t] EXCEPT !.pixels = off_pixels, !.brightness = 0,
                                       !.pc = "uwb_chk"])

\* Mutant: initWithPin also puts the brightness back to its default.
StepInitCheck_ResetBrightness(t) ==
  /\ tasks[t].pc = "ini_chk"
  /\ IF initialized
       THEN OnlyTask(t, [tasks[t] EXCEPT !.pc = "idle", !.ret = NEOLED_OK])
       ELSE /\ size_buffer' = LED_NUMBER * PIXEL_SIZE
            /\ current_gpio_pin' = tasks[t].pin
            /\ global_brightness' = 255
            /\ tasks' = [tasks EXCEPT ![t] = [@ EXCEPT !.pc = "ini_acq", !.i = 0]]
            /\ UNCHANGED <<NEOLED_USE_NEW_I2S_DRIVER, initialized, out_buffer,
                           tx_handle, i2s_held, dout, call, ret, log, pure>>

\* initWithPin: the initialized check, then size_buffer and current_gpio_pin.
StepInitCheck(t) ==
  /\ tasks[t].pc = "ini_chk"
  /\ IF initialized
       THEN OnlyTask(t, [tasks[t] EXCEPT !.pc = "idle", !.ret = NEOLED_OK])
       ELSE /\ size_buffer' = LED_NUMBER * PIXEL_SIZE
            /\ current_gpio_pin' = tasks[t].pin
            /\ tasks' = [tasks EXCEPT ![t] = [@ EXCEPT !.pc = "ini_acq", !.i = 0]]
            /\ UNCHANGED <<NEOLED_USE_NEW_I2S_DRIVER, initialized,
                           global_brightness, out_buffer, tx_handle, i2s_held,
                           dout, call, ret, log, pure>>

\* The names of the acquisition steps of the build, and of its release call.
AcquireSteps ==
  IF NEOLED_USE_NEW_I2S_DRIVER
    THEN <<"i2s_new_channel", "i2s_channel_init_std_mode", "i2s_channel_enable">>
    ELSE <<"i2s_driver_install", "i2s_set_pin">>
ReleaseFn ==
  IF NEOLED_USE_NEW_I2S_DRIVER THEN "i2s_del_channel" ELSE "i2s_driver_uninstall"

\* initWithPin: acquisition step i + 1.  The first step allocates, the second
\* routes the pin; a failure after the first step releases and returns
\* NEOLED_ERR_I2S, a failure of the first step just returns it.
StepInitAcquire(t) ==
  /\ tasks[t].pc = "ini_acq"
  /\ \E ok \in BOOLEAN :
       LET T == tasks[t]
           k == T.i + 1
           e == Ev(AcquireSteps[k], ok, <<>>,
                   IF k = 2 THEN T.pin ELSE NoPin)
           rel == Ev(ReleaseFn, TRUE, <<>>, NoPin)
       IN IF ok
            THEN /\ tasks' = [tasks EXCEPT ![t] =
                                [T EXCEPT !.log = Append(T.log, e), !.i = k,
                                          !.pc = IF k = Len(AcquireSteps)
                                                   THEN "ini_set" ELSE "ini_acq"]]
                 /\ i2s_held' = TRUE
                 /\ tx_handle' = NEOLED_USE_NEW_I2S_DRIVER
                 /\ dout' = IF k = 2 THEN T.pin ELSE dout
            ELSE /\ tasks' = [tasks EXCEPT ![t] =
                                [T EXCEPT !.log = IF k = 1 THEN Append(T.log, e)
                                                  ELSE T.log \o <<e, rel>>,
                                          !.pc = "idle", !.ret = NEOLED_ERR_I2S]]
                 /\ i2s_held' = IF k = 1 THEN i2s_held ELSE FALSE
                 /\ tx_handle' = IF k = 1 THEN tx_handle ELSE FALSE
                 /\ dout' = IF k = 1 THEN dout ELSE NoPin
  /\ UNCHANGED <<NEOLED_USE_NEW_I2S_DRIVER, initialized, global_brightness,
                 current_gpio_pin, size_buffer, out_buffer, call, ret, log, pure>>

\* initWithPin: initialized = true, then clear().
StepInitSet(t) ==
  /\ tasks[t].pc = "ini_set"
  /\ initialized' = TRUE
  /\ tasks' = [tasks EXCEPT ![t] = [@ EXCEPT !.pc = "clr_chk"]]
  /\ UNCHANGED <<NEOLED_USE_NEW_I2S_DRIVER, global_brightness, current_gpio_pin,
                 size_buffer, out_buffer, tx_handle, i2s_held, dout, call, ret,
                 log, pure>>

\* destroy: the initialized check, then clear().
StepDestroyCheck(t) ==
  /\ tasks[t].pc = "dst_chk"
  /\ OnlyTask(t, IF ~initialized
                   THEN [tasks[t] EXCEPT !.pc = "idle", !.ret = NEOLED_OK]
                   ELSE [tasks[t] EXCEPT !.pc = "clr_chk"])

\* destroy: i2s_channel_disable and i2s_del_channel when tx_handle is set, or
\* i2s_driver_uninstall.
StepDestroyRelease(t) ==
  /\ tasks[t].pc = "dst_rel"
  /\ LET T == tasks[t]
         dis == Ev("i2s_channel_disable", TRUE, <<>>, NoPin)
         del == Ev("i2s_del_channel", TRUE, <<>>, NoPin)
         uni == Ev("i2s_driver_uninstall", TRUE, <<>>, NoPin)
         rel == IF NEOLED_USE_NEW_I2S_DRIVER
                  THEN (IF tx_handle THEN <<dis, del>> ELSE <<>>)
                  ELSE <<uni>>
     IN /\ tasks' = [u \in DOMAIN tasks |->
                       IF u = t
                         THEN [T EXCEPT !.log = T.log \o rel, !.pc = "dst_rst"]
                       ELSE IF tasks[u].pc # "idle"
                         THEN [tasks[u] EXCEPT !.cut = TRUE]
                       ELSE tasks[u]]
        /\ tx_handle' = FALSE
        /\ i2s_held' = IF rel = <<>> THEN i2s_held ELSE FALSE
  /\ UNCHANGED <<NEOLED_USE_NEW_I2S_DRIVER, initialized, global_brightness,
                 current_gpio_pin, size_buffer, out_buffer, dout, call, ret,
                 log, pure>>

\* destroy: gpio_reset_pin(current_gpio_pin).
StepDestroyResetPin(t) ==
  /\ tasks[t].pc = "dst_rst"
  /\ LET T == tasks[t]
         rst == Ev("gpio_reset_pin", TRUE, <<>>, current_gpio_pin)
     IN tasks' = [tasks EXCEPT ![t] =
                    [T EXCEPT !.log = Append(T.log, rst), !.pc = "dst_fin"]]
  /\ dout' = IF dout = current_gpio_pin THEN NoPin ELSE dout
  /\ UNCHANGED <<NEOLED_USE_NEW_I2S_DRIVER, driver, i2s_held, call, ret, log,
                 pure>>

\* destroy: initialized = false; return NEOLED_OK.
StepDestroyFinish(t) ==
  /\ tasks[t].pc = "dst_fin"
  /\ initialized' = FALSE
  /\ tasks' = [tasks EXCEPT ![t] = [@ EXCEPT !.pc = "idle", !.ret = NEOLED_OK]]
  /\ UNCHANGED <<NEOLED_USE_NEW_I2S_DRIVER, global_brightness, current_gpio_pin,
                 size_buffer, out_buffer, tx_handle, i2s_held, dout, call, ret,
                 log, pure>>

\* setBrightness is a single store.
StepSetBrightness(t, b) ==
  /\ tasks[t].pc = "idle"
  /\ global_brightness' = b
  /\ tasks' = [tasks EXCEPT ![t] =
                 [IdleTask EXCEPT !.op = "setBrightness", !.brightness = b,
                                  !.ret = tasks[t].ret]]
  /\ UNCHANGED <<NEOLED_USE_NEW_I2S_DRIVER, initialized, current_gpio_pin,
                 size_buffer, out_buffer, tx_handle, i2s_held, dout, call, ret,
                 log, pure>>

(***************************************************************************)
(* SeqSpec: one execution context makes the calls one after the other.  A   *)
(* call that has started keeps running: every peripheral call returns.      *)
(***************************************************************************)
SeqInit ==
  /\ DriverInit
  /\ pure = NoPure
  /\ tasks = <<IdleTask>>

SeqEnter ==
  \/ \E p \in Pins : Enter(1, "initWithPin", NULL, 0, p)
  \/ Enter(1, "init", NULL, 0, I2S_DO_IO)
  \/ \E f \in Frames \cup {NULL} : Enter(1, "update", f, 0, NoPin)
  \/ \E f \in Frames \cup {NULL}, b \in Brightnesses :
       Enter(1, "updateWithBrightness", f, b, NoPin)
  \/ Enter(1, "clear", NULL, 0, NoPin)
  \/ Enter(1, "destroy", NULL, 0, NoPin)

SeqSetBrightness == \E b \in Brightnesses : StepSetBrightness(1, b)

SeqUpdateArg == StepUpdateArg(1)
SeqCheck == StepCheck(1)
SeqEncode == StepEncode(1)
SeqWriteSymbols == StepWriteSymbols(1)
SeqWriteTrailer == StepWriteTrailer(1)
SeqDelay == StepDelay(1)
SeqClearCheck == StepClearCheck(1)
SeqInitCheck == StepInitCheck(1)
SeqInitAcquire == StepInitAcquire(1)
SeqInitSet == StepInitSet(1)
SeqDestroyCheck == StepDestroyCheck(1)
SeqDestroyRelease == StepDestroyRelease(1)
SeqDestroyResetPin == StepDestroyResetPin(1)
SeqDestroyFinish == StepDestroyFinish(1)

\* The steps inside a call.
SeqRun ==
  \/ SeqUpdateArg
  \/ SeqCheck
  \/ SeqEncode
  \/ SeqWriteSymbols
  \/ SeqWriteTrailer
  \/ SeqDelay
  \/ SeqClearCheck
  \/ SeqInitCheck
  \/ SeqInitAcquire
  \/ SeqInitSet
  \/ SeqDestroyCheck
  \/ SeqDestroyRelease
  \/ SeqDestroyResetPin
  \/ SeqDestroyFinish

SeqNext ==
  \/ SeqEnter
  \/ SeqSetBrightness
  \/ SeqRun

SeqSpec == SeqInit /\ [][SeqNext]_vars /\ WF_vars(SeqRun)

(***************************************************************************)
(* ConcSpec: after a successful init() in one context, two execution        *)
(* contexts call update and updateWithBrightness with no mutual exclusion   *)
(* between them.                                                            *)
(***************************************************************************)
Contexts == {1, 2}
ConcFrames ==
  {[i \in 1..LED_NUMBER |-> Pixel(255, 0, 0)],
   [i \in 1..LED_NUMBER |-> Pixel(27, 228, 128)]}

\* The state a successful init() leaves: the peripheral acquired and routed
\* to I2S_DO_IO, the symbol buffer holding the all-off frame of its clear().
ConcInit ==
  /\ NEOLED_USE_NEW_I2S_DRIVER \in BOOLEAN
  /\ initialized = TRUE
  /\ global_brightness = 255
  /\ current_gpio_pin = I2S_DO_IO
  /\ size_buffer = LED_NUMBER * PIXEL_SIZE
  /\ out_buffer = EncodeLoop([i \in 1..(LED_NUMBER * PIXEL_SIZE) |-> 0],
                             off_pixels, 0, 0)
  /\ tx_handle = NEOLED_USE_NEW_I2S_DRIVER
  /\ i2s_held = TRUE
  /\ dout = I2S_DO_IO
  /\ call = Call("none", NULL, 0, NoPin)
  /\ ret = NEOLED_OK
  /\ log = <<>>
  /\ pure = NoPure
  /\ tasks = [t \in Contexts |-> IdleTask]

ConcEnter ==
  \E t \in Contexts, f \in ConcFrames :
    \/ Enter(t, "update", f, 0, NoPin)
    \/ Enter(t, "updateWithBrightness", f, 255, NoPin)

ConcUpdateArg == \E t \in Contexts : StepUpdateArg(t)
ConcCheck == \E t \in Contexts : StepCheck(t)
ConcEncode == \E t \in Contexts : StepEncode(t)
ConcWriteSymbols == \E t \in Contexts : StepWriteSymbols(t)
ConcWriteTrailer == \E t \in Contexts : StepWriteTrailer(t)
ConcDelay == \E t \in Contexts : StepDelay(t)

ConcNext ==
  \/ ConcEnter
  \/ ConcUpdateArg
  \/ ConcCheck
  \/ ConcEncode
  \/ ConcWriteSymbols
  \/ ConcWriteTrailer
  \/ ConcDelay

ConcSpec == ConcInit /\ [][ConcNext]_vars

(***************************************************************************)
(* TeardownSpec: after a successful init(), one context calls update,       *)
(* updateWithBrightness and clear while another calls destroy, with no      *)
(* mutual exclusion between them.                                           *)
(***************************************************************************)
TeardownFrame == [i \in 1..LED_NUMBER |-> Pixel(255, 0, 0)]

TeardownEnter ==
  \/ Enter(1, "update", TeardownFrame, 0, NoPin)
  \/ Enter(1, "updateWithBrightness", TeardownFrame, 255, NoPin)
  \/ Enter(1, "clear", NULL, 0, NoPin)
  \/ Enter(2, "destroy", NULL, 0, NoPin)

TeardownUpdateArg == \E t \in Contexts : StepUpdateArg(t)
TeardownCheck == \E t \in Contexts : StepCheck(t)
TeardownEncode == \E t \in Contexts : StepEncode(t)
TeardownWriteSymbols == \E t \in Contexts : StepWriteSymbols(t)
TeardownWriteTrailer == \E t \in Contexts : StepWriteTrailer(t)
TeardownDelay == \E t \in Contexts : StepDelay(t)
TeardownClearCheck == \E t \in Contexts : StepClearCheck(t)
TeardownDestroyCheck == \E t \in Contexts : StepDestroyCheck(t)
TeardownDestroyRelease == \E t \in Contexts : StepDestroyRelease(t)
TeardownDestroyResetPin == \E t \in Contexts : StepDestroyResetPin(t)
TeardownDestroyFinish == \E t \in Contexts : StepDestroyFinish(t)

TeardownNext ==
  \/ TeardownEnter
  \/ TeardownUpdateArg
  \/ TeardownCheck
  \/ TeardownEncode
  \/ TeardownWriteSymbols
  \/ TeardownWriteTrailer
  \/ TeardownDelay
  \/ TeardownClearCheck
  \/ TeardownDestroyCheck
  \/ TeardownDestroyRelease
  \/ TeardownDestroyResetPin
  \/ TeardownDestroyFinish

TeardownSpec == ConcInit /\ [][TeardownNext]_vars

(***************************************************************************)
(* Observations used by the properties                                      *)
(***************************************************************************)
InitOps == {"init", "initWithPin"}
UpdateOps == {"update", "updateWithBrightness"}
WriteOps == {"i2s_channel_write", "i2s_write"}
AcquireOps == {"i2s_new_channel", "i2s_channel_init_std_mode",
               "i2s_channel_enable", "i2s_driver_install", "i2s_set_pin"}
ReleaseOps == {"i2s_channel_disable", "i2s_del_channel", "i2s_driver_uninstall"}

IsWrite(e) == e.op \in WriteOps
Writes(l) == SelectSeq(l, IsWrite)
NoWrite(l) == Writes(l) = <<>>
FailedIn(l, ops) == \E i \in 1..Len(l) : l[i].op \in ops /\ ~l[i].ok

\* The brightness a call of update/updateWithBrightness encodes with.
UsedBrightness(c, gb) == IF c.op = "update" THEN gb ELSE c.brightness

(***************************************************************************)
(* C1: while the driver is not initialized, update, updateWithBrightness    *)
(* and clear return NEOLED_ERR_NOT_INIT, make no peripheral call at all (so *)
(* no write) and leave the driver uninitialized.                            *)
(***************************************************************************)
C1_NotInitRejected ==
  [][(~initialized /\ call'.op \in UpdateOps \cup {"clear"})
       => /\ ret' = NEOLED_ERR_NOT_INIT
          /\ NoWrite(log') /\ log' = <<>>
          /\ ~initialized' /\ ~isInitialized']_vars

\* update was rejected after a destroy of a driver that had been READY.
C1_Witness ==
  /\ call.op \in UpdateOps
  /\ call.pixels # NULL
  /\ ret = NEOLED_ERR_NOT_INIT
  /\ ~initialized
  /\ size_buffer = LED_NUMBER * PIXEL_SIZE

(***************************************************************************)
(* C2: init/initWithPin on a READY driver returns success, stays READY,     *)
(* makes no peripheral call (no acquisition, no transmission) and keeps the *)
(* active pin; a later destroy therefore resets the pin the peripheral was  *)
(* acquired with.                                                           *)
(***************************************************************************)
C2_InitIdempotent ==
  [][/\ (initialized /\ call'.op \in InitOps)
          => /\ ret' = NEOLED_OK
             /\ initialized'
             /\ log' = <<>>
             /\ current_gpio_pin' = current_gpio_pin
             /\ <<i2s_held', dout', out_buffer'>> = <<i2s_held, dout, out_buffer>>
     /\ (initialized /\ call'.op = "destroy")
          => /\ log'[Len(log')].op = "gpio_reset_pin"
             /\ log'[Len(log')].pin = dout]_vars

\* A second init, with another pin than the one in use, returned success.
C2_Witness ==
  /\ call.op = "initWithPin"
  /\ initialized
  /\ log = <<>>
  /\ ret = NEOLED_OK
  /\ call.pin # current_gpio_pin

(***************************************************************************)
(* C3: destroy on an UNINITIALIZED driver returns success, leaves it        *)
(* uninitialized and makes no peripheral call: no write, no release, no pin *)
(* reset.                                                                   *)
(***************************************************************************)
C3_DestroyIdempotent ==
  [][(~initialized /\ call'.op = "destroy")
       => /\ ret' = NEOLED_OK
          /\ ~initialized'
          /\ log' = <<>>
          /\ <<i2s_held', dout', tx_handle'>> = <<i2s_held, dout, tx_handle>>]_vars

\* A destroy that found the driver uninitialized after an earlier init.
C3_Witness ==
  /\ call.op = "destroy"
  /\ ~initialized
  /\ log = <<>>
  /\ ret = NEOLED_OK
  /\ size_buffer = LED_NUMBER * PIXEL_SIZE

(***************************************************************************)
(* C4: an init/initWithPin whose peripheral acquisition fails returns       *)
(* NEOLED_ERR_INIT.                                                         *)
(***************************************************************************)
C4_InitErrorCode ==
  (call.op \in InitOps /\ FailedIn(log, AcquireOps)) => ret = NEOLED_ERR_INIT

(***************************************************************************)
(* C5: an init/initWithPin that fails at an acquisition step leaves the     *)
(* driver uninitialized and transmits nothing, and the next init is not     *)
(* short-circuited: it starts the acquisition again.                        *)
(***************************************************************************)
C5_FailedInitStaysUninit ==
  [][/\ (call'.op \in InitOps /\ FailedIn(log', AcquireOps))
          => /\ ~initialized'
             /\ NoWrite(log')
             /\ ret' # NEOLED_OK
     /\ (call.op \in InitOps /\ FailedIn(log, AcquireOps) /\ call'.op \in InitOps)
          => /\ log' # <<>>
             /\ log'[1].op \in {"i2s_new_channel", "i2s_driver_install"}]_vars

\* An init failed at its last acquisition step, after earlier steps succeeded.
C5_Witness ==
  /\ call.op \in InitOps
  /\ ~initialized
  /\ Len(log) >= 2
  /\ \E i \in 2..Len(log) :
       log[i].op \in {"i2s_channel_enable", "i2s_set_pin"} /\ ~log[i].ok

(***************************************************************************)
(* C6: in READY, a failed write of the symbol buffer or of the trailer      *)
(* makes update/updateWithBrightness return NEOLED_ERR_I2S with the driver  *)
(* still READY and the peripheral still held; the next update reaches the   *)
(* peripheral again.                                                        *)
(***************************************************************************)
C6_WriteFailureKeepsReady ==
  [][/\ (initialized /\ call'.op \in UpdateOps /\ FailedIn(log', WriteOps))
          => /\ ret' = NEOLED_ERR_I2S
             /\ initialized'
             /\ i2s_held'
             /\ <<tx_handle', dout', size_buffer'>> = <<tx_handle, dout, size_buffer>>
     /\ (/\ call.op \in UpdateOps /\ FailedIn(log, WriteOps)
         /\ call'.op \in UpdateOps /\ call'.pixels # NULL)
          => /\ log' # <<>>
             /\ IsWrite(log'[1])]_vars

\* The symbol buffer was accepted and the trailer write failed.
C6_Witness ==
  /\ call.op \in UpdateOps
  /\ ret = NEOLED_ERR_I2S
  /\ Len(log) = 2
  /\ log[1].ok /\ ~log[2].ok
  /\ initialized

(***************************************************************************)
(* C7: in READY, update/updateWithBrightness with a null pixel pointer      *)
(* returns NEOLED_ERR_PARAM, makes no peripheral call, leaves the symbol    *)
(* buffer as it was and the driver READY.                                   *)
(***************************************************************************)
C7_NullPixelsRejected ==
  [][(initialized /\ call'.op \in UpdateOps /\ call'.pixels = NULL)
       => /\ ret' = NEOLED_ERR_PARAM
          /\ log' = <<>>
          /\ out_buffer' = out_buffer
          /\ initialized']_vars

\* A null pointer was rejected while the symbol buffer held a lit frame.
C7_Witness ==
  /\ call.op \in UpdateOps
  /\ call.pixels = NULL
  /\ ret = NEOLED_ERR_PARAM
  /\ initialized
  /\ \E i \in 1..Len(out_buffer) : out_buffer[i] \notin {0, bitpatterns[1]}

(***************************************************************************)
(* C8: a successful update/updateWithBrightness makes exactly two           *)
(* peripheral writes: first the symbol buffer, LED_NUMBER * PIXEL_SIZE      *)
(* bytes encoding the frame of the call, then at once the ZERO_BUFFER       *)
(* all-zero bytes of the trailer; the settle delay comes after both.        *)
(***************************************************************************)
C8_TwoWritesThenDelay ==
  (call.op \in UpdateOps /\ ret = NEOLED_OK)
    => /\ Len(Writes(log)) = 2
       /\ Len(log) >= 3
       /\ IsWrite(log[1]) /\ IsWrite(log[2])
       /\ Len(log[1].data) = LED_NUMBER * 12
       /\ log[1].data = out_buffer
       /\ log[1].data = EncodeLoop([i \in 1..(LED_NUMBER * 12) |-> 0], call.pixels,
                                   UsedBrightness(call, global_brightness), 0)
       /\ log[2].data = [i \in 1..48 |-> 0]
       /\ log[3].op = "vTaskDelay"

\* A lit frame was transmitted at reduced brightness.
C8_Witness ==
  /\ call.op = "updateWithBrightness"
  /\ ret = NEOLED_OK
  /\ call.brightness = 128
  /\ call.pixels[1] = Pixel(27, 228, 128)

(***************************************************************************)
(* C9: the symbol buffer of a transmission holds, for pixel i, channel c in *)
(* green, red, blue order and group k = 0..3, at byte i*12 + 4*c + k the    *)
(* table entry of (s >> (6 - 2k)) & 3 with s = channel * brightness / 255   *)
(* truncated and table 0x88, 0x8e, 0xe8, 0xee; a first pixel of green 0xFF, *)
(* red 0, blue 0 at brightness 255 gives four 0xee and eight 0x88.          *)
(***************************************************************************)
C9_table == <<136, 142, 232, 238>>
C9_Channel(pixel, c) ==
  CASE c = 0 -> pixel.green [] c = 1 -> pixel.red [] c = 2 -> pixel.blue
C9_Byte(pixel, brightness, c, k) ==
  LET s == (C9_Channel(pixel, c) * brightness) \div 255
  IN C9_table[((s \div (2 ^ (6 - 2 * k))) % 4) + 1]

C9_SymbolBufferEncoding ==
  (call.op \in UpdateOps /\ log # <<>>)
    => LET b == UsedBrightness(call, global_brightness)
       IN /\ \A i \in 0..(LED_NUMBER - 1), c \in 0..2, k \in 0..3 :
               /\ out_buffer[i * 12 + 4 * c + k + 1]
                    = C9_Byte(call.pixels[i + 1], b, c, k)
               /\ log[1].data[i * 12 + 4 * c + k + 1]
                    = C9_Byte(call.pixels[i + 1], b, c, k)
          /\ (b = 255 /\ call.pixels[1] = Pixel(255, 0, 0))
               => SubSeq(log[1].data, 1, 12)
                    = <<238, 238, 238, 238, 136, 136, 136, 136,
                        136, 136, 136, 136>>

\* A frame of the pure-green pixel and a pixel with all four 2-bit groups was
\* transmitted at full brightness.
C9_Witness ==
  /\ call.op \in UpdateOps
  /\ log # <<>>
  /\ UsedBrightness(call, global_brightness) = 255
  /\ call.pixels[1] = Pixel(255, 0, 0)
  /\ call.pixels[LED_NUMBER] = Pixel(27, 228, 128)

(***************************************************************************)
(* C10: an update(frame) that directly follows setBrightness(b) hands the   *)
(* peripheral the symbol buffer that updateWithBrightness(frame, b) hands   *)
(* it from the same state.                                                  *)
(***************************************************************************)
C10_SetBrightnessThenUpdate ==
  [][(/\ call.op = "setBrightness" /\ call'.op = "update"
      /\ initialized /\ call'.pixels # NULL)
       => /\ log' # <<>>
          /\ IsWrite(log'[1])
          /\ log'[1].data =
               updateWithBrightness(initialized, size_buffer, out_buffer,
                                    call'.pixels, call.brightness, 0).ev[1].data
          /\ getBrightness' = call.brightness]_vars

\* update transmitted a lit frame at a global brightness that only
\* setBrightness(128) can have set.
C10_Witness ==
  /\ call.op = "update"
  /\ ret = NEOLED_OK
  /\ global_brightness = 128
  /\ call.pixels[1] = Pixel(27, 228, 128)

(***************************************************************************)
(* C11 as claimed: an init/initWithPin that started UNINITIALIZED and       *)
(* returned success has made, after the acquisition, the write of an        *)
(* all-0x88 symbol buffer followed by the write of the trailer.             *)
(***************************************************************************)
AllOff == [i \in 1..(LED_NUMBER * 12) |-> 136]
AcquireLen == IF NEOLED_USE_NEW_I2S_DRIVER THEN 3 ELSE 2
AcquiredFirst(l) ==
  /\ Len(l) > AcquireLen
  /\ \A i \in 1..Len(l) :
       IF i <= AcquireLen THEN l[i].op \in AcquireOps /\ l[i].ok
                          ELSE l[i].op \notin AcquireOps

C11_InitTransmitsAllOffAndTrailer ==
  (call.op \in InitOps /\ ret = NEOLED_OK /\ log # <<>>)
    => /\ AcquiredFirst(log)
       /\ Len(log) >= AcquireLen + 2
       /\ IsWrite(log[AcquireLen + 1]) /\ log[AcquireLen + 1].data = AllOff
       /\ IsWrite(log[AcquireLen + 2])
       /\ log[AcquireLen + 2].data = [i \in 1..48 |-> 0]

(***************************************************************************)
(* C11 amended: an init/initWithPin that started UNINITIALIZED and returned *)
(* success has first made every acquisition step, all successful, and then  *)
(* handed the peripheral an all-0x88 symbol buffer; the trailer write       *)
(* follows when the peripheral accepted the symbol buffer; no write comes   *)
(* before the last acquisition step.                                        *)
(***************************************************************************)
C11_InitWritesAllOffAfterAcquire ==
  (call.op \in InitOps /\ ret = NEOLED_OK /\ log # <<>>)
    => /\ AcquiredFirst(log)
       /\ IsWrite(log[AcquireLen + 1]) /\ log[AcquireLen + 1].data = AllOff
       /\ log[AcquireLen + 1].ok
            => /\ Len(log) >= AcquireLen + 2
               /\ IsWrite(log[AcquireLen + 2])
               /\ log[AcquireLen + 2].data = [i \in 1..48 |-> 0]
       /\ initialized /\ out_buffer = AllOff

\* An init acquired the peripheral and both writes of its clear succeeded.
C11_Witness ==
  /\ call.op \in InitOps
  /\ ret = NEOLED_OK
  /\ Len(Writes(log)) = 2
  /\ \A i \in 1..Len(log) : log[i].ok

(***************************************************************************)
(* C12: in READY, clear hands the peripheral the encoding of an all-zero    *)
(* frame at brightness 0: LED_NUMBER * 12 bytes 0x88, the same bytes as an  *)
(* update of the all-black frame at brightness 255 hands it, whatever the   *)
(* global brightness and the frame sent before.                             *)
(***************************************************************************)
Black == [i \in 1..LED_NUMBER |-> Pixel(0, 0, 0)]

C12_ClearIsAllOff ==
  [][/\ (initialized /\ call'.op = "clear")
          => /\ log' # <<>>
             /\ IsWrite(log'[1])
             /\ log'[1].data = AllOff
             /\ log'[1].data =
                  updateWithBrightness(initialized, size_buffer, out_buffer,
                                       Black, 255, 0).ev[1].data
     /\ (/\ initialized /\ call'.op = "updateWithBrightness"
         /\ call'.pixels = Black /\ call'.brightness = 255)
          => log'[1].data = AllOff]_vars

\* clear transmitted while the global brightness was reduced.
C12_Witness ==
  /\ call.op = "clear"
  /\ log # <<>>
  /\ global_brightness = 128
  /\ initialized

(***************************************************************************)
(* C13: destroy in READY returns success and leaves the driver              *)
(* uninitialized, the peripheral released and the pin reset, whether the    *)
(* writes of its clear succeed or fail; the writes come first, then the     *)
(* release, then the pin reset.                                             *)
(***************************************************************************)
InOrder(l) ==
  \A i, j \in 1..Len(l) :
    /\ (IsWrite(l[i]) /\ l[j].op \in ReleaseOps) => i < j
    /\ (l[i].op \in ReleaseOps /\ l[j].op = "gpio_reset_pin") => i < j

C13_DestroyAlwaysCompletes ==
  [][(initialized /\ call'.op = "destroy")
       => /\ ret' = NEOLED_OK
          /\ ~initialized'
          /\ ~i2s_held'
          /\ dout' = NoPin
          /\ IsWrite(log'[1])
          /\ \E j \in 1..Len(log') : log'[j].op \in ReleaseOps
          /\ log'[Len(log')].op = "gpio_reset_pin"
          /\ log'[Len(log')].pin = dout
          /\ InOrder(log')]_vars

\* destroy completed although the first write of its clear failed.
C13_Witness ==
  /\ call.op = "destroy"
  /\ ret = NEOLED_OK
  /\ ~initialized
  /\ Len(log) >= 3
  /\ IsWrite(log[1]) /\ ~log[1].ok

(***************************************************************************)
(* C14: within one update, updateWithBrightness or clear call the symbol    *)
(* buffer and the trailer are each written at most once, and a failed       *)
(* write is the last peripheral call of the call.                           *)
(***************************************************************************)
C14_NoRetry ==
  (call.op \in UpdateOps \cup {"clear"})
    => /\ Len(Writes(log)) <= 2
       /\ \A i \in 1..Len(log) : (IsWrite(log[i]) /\ ~log[i].ok) => i = Len(log)
       /\ \A i \in 1..Len(log) : IsWrite(log[i]) => i <= 2
       /\ Len(Writes(log)) = 2 => log[1].data = out_buffer /\ log[2].data = off_buffer

\* The write of the symbol buffer failed and nothing followed it.
C14_Witness ==
  /\ call.op \in UpdateOps \cup {"clear"}
  /\ ret = NEOLED_ERR_I2S
  /\ Len(log) = 1
  /\ ~log[1].ok

(***************************************************************************)
(* C20: the peripheral is held exactly when the driver is initialized, and  *)
(* within every call it is allocated only while free, configured, written   *)
(* and released only while held; a failed init gives back what it took.     *)
(***************************************************************************)
AllocateOps == {"i2s_new_channel", "i2s_driver_install"}
FreeOps == {"i2s_del_channel", "i2s_driver_uninstall"}
NeedsHeld == (AcquireOps \ AllocateOps) \cup WriteOps \cup ReleaseOps
               \cup {"i2s_zero_dma_buffer"}

HeldAfterEv(h, e) ==
  IF e.op \in AllocateOps THEN (h \/ e.ok)
  ELSE IF e.op \in FreeOps THEN FALSE
  ELSE h

RECURSIVE HeldAfter(_, _)
HeldAfter(h, l) ==
  IF l = <<>> THEN h ELSE HeldAfter(HeldAfterEv(h, Head(l)), Tail(l))

LegalLog(h, l) ==
  \A i \in 1..Len(l) :
    LET before == HeldAfter(h, SubSeq(l, 1, i - 1))
    IN /\ l[i].op \in AllocateOps => ~before
       /\ l[i].op \in NeedsHeld => before

C20_HeldIffInitialized ==
  [][/\ i2s_held = initialized
     /\ i2s_held' = initialized'
     /\ LegalLog(i2s_held, log')
     /\ HeldAfter(i2s_held, log') = initialized']_vars

\* An init failed after it had allocated the peripheral, and gave it back.
C20_Witness ==
  /\ call.op \in InitOps
  /\ ret = NEOLED_ERR_I2S
  /\ ~i2s_held
  /\ \E i \in 1..Len(log) : log[i].op \in AllocateOps /\ log[i].ok
  /\ \E i \in 1..Len(log) : log[i].op \in FreeOps

(***************************************************************************)
(* C15: hexValue(p) is (red << 16) | (green << 8) | blue, and fromHex of    *)
(* it is p again, for every pixel p.                                        *)
(***************************************************************************)
C15_HexRoundTrip ==
  [][/\ (pure'.fn = "hexValue" /\ pure'.done)
          => pure'.result = pure'.args[1].red * 65536
                              + pure'.args[1].green * 256 + pure'.args[1].blue
     /\ (/\ pure.fn = "hexValue" /\ pure.done
         /\ pure'.fn = "fromHex" /\ pure'.args = <<pure.result>>)
          => pure'.result = pure.args[1]]_vars

\* fromHex was applied to the hexValue of a pixel with three different
\* channels and returned that pixel.
C15_Witness ==
  /\ pure.fn = "fromHex"
  /\ pure.done
  /\ pure.args = <<255 * 65536 + 1 * 256 + 128>>
  /\ pure.result = Pixel(1, 255, 128)

(***************************************************************************)
(* C16: blend(a, b, 0) is a, and every channel of blend(a, b, 255) is       *)
(* within 1 of the same channel of b.                                       *)
(***************************************************************************)
Near(x, y) == x - y <= 1 /\ y - x <= 1

C16_BlendEnds ==
  (pure.fn = "blend" /\ pure.done)
    => /\ pure.args[3] = 0 => pure.result = pure.args[1]
       /\ pure.args[3] = 255
            => /\ Near(pure.result.red, pure.args[2].red)
               /\ Near(pure.result.green, pure.args[2].green)
               /\ Near(pure.result.blue, pure.args[2].blue)

\* Two different pixels were blended with amount 255.
C16_Witness ==
  /\ pure.fn = "blend"
  /\ pure.done
  /\ pure.args[3] = 255
  /\ pure.args[1] = Pixel(255, 255, 255)
  /\ pure.args[2] = Pixel(128, 1, 0)

(***************************************************************************)
(* C17: colorWheel(0) is red 0, green 255, blue 0 and colorWheel(85) is red *)
(* 255, green 0, blue 0.                                                    *)
(***************************************************************************)
C17_ColorWheelBands ==
  (pure.fn = "colorWheel" /\ pure.done)
    => /\ pure.args[1] = 0 => pure.result = [red |-> 0, green |-> 255, blue |-> 0]
       /\ pure.args[1] = 85 => pure.result = [red |-> 255, green |-> 0, blue |-> 0]

\* colorWheel was applied to the first hue of the second band.
C17_Witness ==
  /\ pure.fn = "colorWheel"
  /\ pure.done
  /\ pure.args[1] = 85


ReturnCodes ==
  {NEOLED_OK, NEOLED_ERR_INIT, NEOLED_ERR_PARAM, NEOLED_ERR_NO_MEM,
   NEOLED_ERR_NOT_INIT, NEOLED_ERR_I2S}

\* UNINITIALIZED: the flag is clear and no peripheral is held.  READY: the flag
\* is set and the peripheral is held and routed to the configured pin.
Uninitialized == ~initialized /\ ~i2s_held
Ready == initialized /\ i2s_held /\ dout = current_gpio_pin

\* C19: when the calls are made one after the other, every call that has
\* started returns, with NEOLED_OK or an error code, and whenever no call is
\* running the driver is UNINITIALIZED or READY, never in the middle of a
\* transmission.
C19_EveryCallReturns ==
  /\ [](tasks[1].pc = "idle" =>
          /\ tasks[1].ret \in ReturnCodes
          /\ Uninitialized \/ Ready)
  /\ (tasks[1].pc # "idle") ~> (tasks[1].pc = "idle")

\* An update whose trailer write was refused has returned the error, and the
\* driver is READY.
C19_Witness ==
  /\ tasks[1].pc = "idle"
  /\ tasks[1].op = "update"
  /\ Len(tasks[1].log) = 2
  /\ ~tasks[1].log[2].ok
  /\ tasks[1].ret = NEOLED_ERR_I2S
  /\ Ready


\* The symbol buffer the call of context t would hand over on its own.
OwnFrame(t) ==
  EncodeLoop([i \in 1..(LED_NUMBER * PIXEL_SIZE) |-> 0], tasks[t].pixels,
             tasks[t].brightness, 0)
\* The symbol buffer the call of context t did hand over.
Handed(t) == tasks[t].log[1].data
HasHanded(t) ==
  /\ tasks[t].op \in UpdateOps
  /\ tasks[t].log # <<>>
BlockOf(buf, i) == SubSeq(buf, (i - 1) * PIXEL_SIZE + 1, i * PIXEL_SIZE)

\* C18: nothing in the driver keeps two contexts apart: a call hands the
\* peripheral a symbol buffer that is not the encoding of its own frame only
\* when another context's encoding loop wrote into out_buffer between the
\* start of the call's own loop and its write; such a hand-over is reachable.
C18_ForeignBytesOnlyWhenInterleaved ==
  \A t \in Contexts :
    (HasHanded(t) /\ Handed(t) # OwnFrame(t)) => tasks[t].raced

\* Two calls with different frames are running, and context 1 has handed over
\* a buffer that is neither frame: every pixel's symbols come from one of the
\* two frames, and not all from the same.
C18_Witness ==
  /\ HasHanded(1)
  /\ tasks[2].op \in UpdateOps
  /\ tasks[2].pc # "idle"
  /\ tasks[1].log[1].ok
  /\ Handed(1) # OwnFrame(1)
  /\ Handed(1) # OwnFrame(2)
  /\ \A i \in 1..LED_NUMBER :
       BlockOf(Handed(1), i) \in {BlockOf(OwnFrame(1), i), BlockOf(OwnFrame(2), i)}


(***************************************************************************)
(* C24: for every r, g, b and brightness the encoder gives makePixel(r, g,  *)
(* b) at that brightness the symbol bytes it gives makePixelWithBrightness( *)
(* r, g, b, brightness) at brightness 255; at brightness 255 the symbols    *)
(* are those of the unscaled channels, at brightness 0 all twelve are the   *)
(* 0b00 symbol 0x88.                                                        *)
(***************************************************************************)
C24_Encoded == pure.fn = "pixelToBitPattern" /\ pure.done
C24_Raw(c, k) == C9_table[((c \div (2 ^ (6 - 2 * k))) % 4) + 1]

C24_ScalingAgrees ==
  C24_Encoded =>
    LET r == pure.args[1]
        g == pure.args[2]
        b == pure.args[3]
        m == pure.args[4]
    IN /\ pure.result.plain = pure.result.scaled
       /\ Len(pure.result.plain) = PIXEL_SIZE
       /\ m = 255 =>
            \A k \in 0..3 : /\ pure.result.plain[k + 1] = C24_Raw(g, k)
                            /\ pure.result.plain[k + 5] = C24_Raw(r, k)
                            /\ pure.result.plain[k + 9] = C24_Raw(b, k)
       /\ m = 0 => \A j \in 1..PIXEL_SIZE : pure.result.plain[j] = 136

\* A pixel of three different channels encoded at a brightness where
\* truncation matters and the scaled channels are not the unscaled ones.
C24_Witness ==
  /\ C24_Encoded
  /\ pure.args = <<254, 127, 1, 128>>
  /\ pure.result.plain = pure.result.scaled
  /\ pure.result.plain # pixelToBitPattern(makePixel(254, 127, 1), 255)


(***************************************************************************)
(* C21: getBrightness() is 255 until the first setBrightness and after that *)
(* the argument of the latest one: no step of init, initWithPin, update,    *)
(* updateWithBrightness, clear or destroy, successful or failing, changes   *)
(* it.                                                                      *)
(***************************************************************************)
C21_OnlySetBrightnessChanges ==
  [][/\ tasks[1].op = "none" => getBrightness = 255
     /\ getBrightness' # getBrightness => tasks'[1].op = "setBrightness"
     /\ tasks'[1].op = "setBrightness"
          => getBrightness' = tasks'[1].brightness]_vars

\* A destroy whose clear() was refused by the peripheral has completed, and
\* the brightness set before it is still returned.
C21_Witness ==
  /\ tasks[1].op = "destroy"
  /\ tasks[1].pc = "idle"
  /\ FailedIn(tasks[1].log, WriteOps)
  /\ ~isInitialized
  /\ getBrightness = 128

(***************************************************************************)
(* C22: init and initWithPin return NEOLED_OK and leave the driver          *)
(* initialized exactly when no acquisition step failed; a refused write of  *)
(* the initial all-off frame changes neither.                               *)
(***************************************************************************)
C22_InitReturned == tasks[1].op \in InitOps /\ tasks[1].pc = "idle"

C22_InitIgnoresClearFailure ==
  C22_InitReturned =>
    IF FailedIn(tasks[1].log, AcquireOps)
      THEN tasks[1].ret = NEOLED_ERR_I2S /\ ~isInitialized
      ELSE tasks[1].ret = NEOLED_OK /\ isInitialized

\* Acquisition succeeded, the write of the all-off frame was refused, and
\* init has returned NEOLED_OK with the driver initialized.
C22_Witness ==
  /\ C22_InitReturned
  /\ ~FailedIn(tasks[1].log, AcquireOps)
  /\ FailedIn(tasks[1].log, WriteOps)
  /\ tasks[1].ret = NEOLED_OK
  /\ isInitialized
  /\ Ready


(***************************************************************************)
(* C23: nothing keeps destroy and a transmitting call apart: a call writes  *)
(* to the peripheral while it is not held only when the call ran while a    *)
(* destroy in the other context was between its release and its return;     *)
(* and a write by update, updateWithBrightness or clear made after destroy  *)
(* has released the peripheral and cleared initialized is reachable.        *)
(***************************************************************************)
C23_WriteAfterReleaseOnlyUnderDestroy ==
  \A t \in Contexts :
    /\ tasks[t].unheld => tasks[t].cut
    /\ tasks[t].orphan => tasks[t].unheld
    /\ tasks[t].unheld => ~NoWrite(tasks[t].log)

\* The call of context 1 passed its initialized check, destroy then ran to
\* its end in context 2, and the call's write of the symbol buffer, its first
\* peripheral call, was made with the peripheral released and initialized
\* false.
C23_Witness ==
  /\ tasks[1].op \in UpdateOps \cup {"clear"}
  /\ tasks[1].orphan
  /\ Len(tasks[1].log) = 1
  /\ IsWrite(tasks[1].log[1])
  /\ tasks[2].op = "destroy"
  /\ tasks[2].pc = "idle"
  /\ FailedIn(tasks[2].log, ReleaseOps) = FALSE
  /\ ~i2s_held
  /\ ~isInitialized

====
